---- MODULE Spec2Model ----
(***************************************************************************)
(* Model of os4/src/task/mod.rs: the task manager of a single-CPU kernel.  *)
(* The registry (TaskManagerInner) holds one task control block per        *)
(* loaded program and the id of the current task; it is reached through a  *)
(* non-reentrant exclusive-access cell (UPSafeCell).  The kernel runs with *)
(* interrupts disabled, so the facade functions run one after another;     *)
(* pc is the kernel's position between their steps.                        *)
(*                                                                         *)
(* The specifications share the actions:                                   *)
(*   Spec     the scheduler from boot: run_first_task, suspend, exit       *)
(*   SpecFind find_next_task applied to an arbitrary registry              *)
(*   SpecMem  mmap requests of the running task, whichever task that is    *)
(*   SpecUnmap, SpecUnmapFaulty  mmap and munmap requests of the running   *)
(*            task, with an address-space collaborator that keeps its      *)
(*            contract and with one that may leave pages mapped            *)
(*   SpecShare  the scheduler from boot together with the mmap, munmap and *)
(*            accessor calls of whichever task runs                        *)
(*   SpecLive the scheduler from boot under the assumption that every call *)
(*            completes and the running task calls suspend or exit again   *)
(***************************************************************************)
EXTENDS Integers, Sequences, FiniteSets

\* ---------------------------------------------------------------- bounds
\* most programs get_num_app() reports
MaxApp == 4
\* timer readings get_time_us() can return are 0..MaxTime
MaxTime == 2

\* programs in the runs of SpecMem and SpecUnmap
MaxMemApp == 2
\* virtual page numbers of the modelled window of an address space are 0..MaxVpn
MaxVpn == 2
\* port arguments of mmap are 0..MaxPort
MaxPort == 8

\* ------------------------------------------------------------- constants
\* config::PAGE_SIZE
PAGE_SIZE == 4096

\* page-table entry flag bits: V, and MapPermission R, W, X, U
PTE_V == 1
PTE_R == 2
PTE_W == 4
PTE_X == 8
PTE_U == 16

\* the absent Option<usize> of find_next_task
NoTask == -1

\* TaskStatus
UnInit == "UnInit"
Ready == "Ready"
Running == "Running"
Exited == "Exited"
TaskStatus == {UnInit, Ready, Running, Exited}

\* readings of the timer collaborator
TimeReadings == 0 .. MaxTime

\* the modelled virtual pages; page 0 holds the program image
Vpns == 0 .. MaxVpn

\* arguments the running task passes to mmap
Starts == {v * PAGE_SIZE : v \in Vpns} \cup {1, PAGE_SIZE + 1}
Lens == {0, 1, PAGE_SIZE, PAGE_SIZE + 1, 2 * PAGE_SIZE}
Ports == 0 .. MaxPort

VARIABLES
    num_app,        \* TaskManager.num_app
    task_status,    \* tasks[i].task_status
    started_time,   \* tasks[i].started_time
    memory_set,     \* tasks[i].memory_set: the page-table entry of each page
    current_task,   \* TaskManagerInner.current_task
    borrowed,       \* the UPSafeCell guard is held
    pc,             \* position of the kernel's control flow
    op,             \* the facade function in progress or last completed
    args,           \* arguments of the task_mmap call being served, or << >>
    ret,            \* status returned by the last task_mmap / task_munmap
    found,          \* result of the last find_next_task
    wrote,          \* task whose started_time the last step assigned, or NoTask
    first_run,      \* task the last step made Running for the first time, or NoTask
    has_run,        \* tasks that have been Running at some time
    scanned,        \* ids the last stand-alone find_next_task examined, in order
    sched_log,      \* the last num_app selections <<current, next>> of
                    \* run_next_task, kept while no task has exited
    task_cx,        \* tasks[i].task_cx: <<owner, point>> of the saved context
    switch_from,    \* current_task_cx_ptr handed to __switch: a task id,
                    \* or NoTask for the throwaway record of run_first_task
    switch_to,      \* next_task_cx_ptr handed to __switch
    cpu,            \* the task whose execution context the CPU runs,
                    \* or NoTask for the boot context
    waited,         \* per task: selections of run_next_task, called by
                    \* another task, that passed it over while it was Ready
    ret_at,         \* the return statement the last mmap / munmap took,
                    \* "none" while a request is pending
    vpn_empty,      \* the vpn_range of the last mmap / munmap was empty
    last_map        \* <<start, len, valid pages before, stage>> of a
                    \* successful mmap that is followed at once by munmap
                    \* and mmap of the same range, or << >>

\* the context records and the switch in preparation
cx == <<task_cx, switch_from, switch_to, cpu>>

\* the record of the last address-space call
mem_hist == <<ret_at, vpn_empty, last_map>>

vars == <<num_app, task_status, started_time, memory_set, current_task,
          borrowed, pc, op, args, ret, found, wrote, first_run, has_run,
          scanned, sched_log, task_cx, switch_from, switch_to, cpu, waited,
          ret_at, vpn_empty, last_map>>

TaskIds == 0 .. (num_app - 1)

\* ------------------------------------------------------- the guard cell
\* a drop(inner) that was left out
drop_inner_forgotten(held) == held

\* drop(inner): the explicit release before __switch
drop_inner(held) == FALSE

\* a RefMut that outlives the method that took it
scope_end_leaked(held) == held

\* the RefMut going out of scope at the end of a method
scope_end(held) == FALSE

\* ------------------------------------------------------- find_next_task
\* a test that takes every task that is not Running
selectable_not_running(status) == status # Running

\* inner.tasks[*id].task_status == TaskStatus::Ready
selectable(status) == status = Ready

\* the ids that (current+1 .. current+num_app+1).map(|id| id % num_app).find(..)
\* examines from offset k on, in order, up to and including the first it takes
RECURSIVE ring_scan(_, _, _, _)
ring_scan(st, n, cur, k) ==
    IF k > n THEN << >>
    ELSE IF selectable(st[(cur + k) % n]) THEN << (cur + k) % n >>
    ELSE << (cur + k) % n >> \o ring_scan(st, n, cur, k + 1)

\* a scan that starts at the current task instead of after it
scan_order_from_current(st, n, cur) == ring_scan(st, n, cur + n - 1, 1)

\* a scan that starts at the head of the task list
scan_order_from_zero(st, n, cur) == ring_scan(st, n, n - 1, 1)

\* a scan that leaves the current task out: current+1 .. current+num_app
scan_order_without_current(st, n, cur) ==
    LET s == ring_scan(st, n, cur, 1)
    IN  IF Len(s) = n THEN SubSeq(s, 1, n - 1) ELSE s

\* the scan of find_next_task
scan_order(st, n, cur) == ring_scan(st, n, cur, 1)

\* find_next_task: Some(id) of the task the scan stops at, or None
find_next_task(st, n, cur) ==
    LET s == scan_order(st, n, cur)
    IN  IF s # << >> /\ selectable(st[s[Len(s)]]) THEN s[Len(s)] ELSE NoTask

\* -------------------------------------------------- status assignments
\* a mark_current_suspended that leaves the status alone
mark_suspended_noop(st, cur) == st

\* inner.tasks[current].task_status = TaskStatus::Ready
mark_suspended(st, cur) == [st EXCEPT ![cur] = Ready]

\* inner.tasks[current].task_status = TaskStatus::Exited
mark_exited(st, cur) == [st EXCEPT ![cur] = Exited]

\* a run_next_task that forgets the status of the task it selects
set_running_noop(st, id) == st

\* next_task.task_status = TaskStatus::Running
set_running(st, id) == [st EXCEPT ![id] = Running]

\* a context pointer taken from current_task after it was updated
saved_current_after_update(cur, next) == next

\* let current = inner.current_task, read before the update:
\* the task whose record receives the caller's context
saved_current(cur, next) == cur

\* a run_next_task that leaves current_task as it was
new_current_kept(cur, next) == cur

\* inner.current_task = next
new_current(cur, next) == next

\* if inner.tasks[next].started_time == 0: the stamp is still to be taken
started_unset(stime, id) == stime[id] = 0

\* ------------------------------------------------------- address spaces
\* bitwise or of two naturals
RECURSIVE bit_or(_, _)
bit_or(a, b) ==
    IF a = 0 THEN b
    ELSE IF b = 0 THEN a
    ELSE (IF a % 2 = 1 \/ b % 2 = 1 THEN 1 ELSE 0) + 2 * bit_or(a \div 2, b \div 2)

\* TaskControlBlock::new: the address space built from the program image
from_image == [v \in Vpns |-> IF v = 0 THEN PTE_V + PTE_R + PTE_X + PTE_U ELSE 0]

\* VirtAddr(a).into() / floor(): the page of an address
floor_vpn(a) == a \div PAGE_SIZE

\* VirtAddr(a).ceil(): the first page at or above an address
ceil_vpn(a) == (a + PAGE_SIZE - 1) \div PAGE_SIZE

\* memory_set.translate(vpn): the entry of a page, 0 when there is none
translate(ms, vpn) == ms[vpn]

\* pte.is_valid()
is_valid(pte) == pte % 2 = 1

\* memory_set.insert_framed_area(start, end, permission)
insert_framed_area(ms, s, e, perm) ==
    [v \in DOMAIN ms |-> IF s <= v /\ v < e THEN bit_or(perm, PTE_V) ELSE ms[v]]

\* an argument check that lets a request for no permission through
mmap_args_bad_allow_none(start, port) ==
    start % PAGE_SIZE # 0 \/ port \div 8 # 0

\* start % PAGE_SIZE != 0 || port & !0x7 != 0 || port & 0x7 == 0
mmap_args_bad(start, port) ==
    start % PAGE_SIZE # 0 \/ port \div 8 # 0 \/ port % 8 = 0

\* a permission built from the port bits without the shift
mmap_permission_unshifted(port) == bit_or(port % 256, PTE_U)

\* MapPermission::from_bits((port as u8) << 1).unwrap() | MapPermission::U
mmap_permission(port) == bit_or(((port % 256) * 2) % 256, PTE_U)

\* an already-mapped check that looks at the first page of the range only
range_has_valid_first_only(ms, s, e) ==
    s < e /\ is_valid(translate(ms, s))

\* an already-mapped check that takes the end of the range in
range_has_valid_through_end(ms, s, e) ==
    \E v \in s .. e : v \in DOMAIN ms /\ is_valid(translate(ms, v))

\* vpn_range.into_iter().find(|vpn| translate(vpn) is a valid entry).is_some()
range_has_valid(ms, s, e) ==
    \E v \in s .. (e - 1) : is_valid(translate(ms, v))

\* the valid pages of an address space
ValidPages(ms) == {v \in DOMAIN ms : is_valid(translate(ms, v))}

\* a task lookup that always takes the head of the task list
cur_id_first(cur) == 0

\* let cur_id = inner.current_task: the task whose memory_set is used
cur_id(cur) == cur

\* a check that looks at the first page of the range only
range_has_unmapped_first_only(ms, s, e) ==
    s < e /\ ~is_valid(translate(ms, s))

\* vpn_range.into_iter().find(|vpn| translate(vpn) is None or not valid)
\*     .is_some()
range_has_unmapped(ms, s, e) ==
    \E v \in s .. (e - 1) : ~is_valid(translate(ms, v))

\* memory_set.munmap(vpn): the entry of the page is cleared
unmap_page(ms, vpn) == [ms EXCEPT ![vpn] = 0]

\* an unmap loop that stops after the first page of the range
unmap_range_first_only(ms, s, e, stuck) ==
    [v \in DOMAIN ms |->
        IF s = v /\ v < e /\ v \notin stuck THEN unmap_page(ms, v)[v]
        ELSE ms[v]]

\* vpn_range.into_iter().for_each(|vpn| memory_set.munmap(vpn)), where the
\* collaborator leaves the pages in stuck as they are
unmap_range(ms, s, e, stuck) ==
    [v \in DOMAIN ms |->
        IF s <= v /\ v < e /\ v \notin stuck THEN unmap_page(ms, v)[v]
        ELSE ms[v]]

\* ------------------------------------------------------ context records
\* TaskContext::goto_trap_return: the context TaskControlBlock::new lays out,
\* which enters user mode at the program's entry point
goto_trap_return(i) == <<i, "entry">>

\* the context __switch saves for the caller: it resumes after the call
saved_in_switch(owner) == <<owner, "run_next_task">>

\* ---------------------------------------------------------------- Init
Init ==
    /\ num_app \in 1 .. MaxApp
    /\ task_status = [i \in TaskIds |-> Ready]
    /\ started_time = [i \in TaskIds |-> 0]
    /\ memory_set = [i \in TaskIds |-> from_image]
    /\ args = << >>
    /\ ret = 0
    /\ current_task = 0
    /\ borrowed = FALSE
    /\ pc = "boot"
    /\ cpu = NoTask
    /\ op = "none"
    /\ found = NoTask
    /\ wrote = NoTask
    /\ first_run = NoTask
    /\ has_run = {}
    /\ scanned = << >>
    /\ task_cx = [i \in TaskIds |-> goto_trap_return(i)]
    /\ switch_from = NoTask
    /\ switch_to = NoTask
    /\ waited = [i \in TaskIds |-> 0]
    /\ ret_at = "none"
    /\ vpn_empty = FALSE
    /\ last_map = << >>
    /\ sched_log = << >>

\* a second exclusive_access while the guard is held: BorrowMutError panic
BorrowPanic ==
    /\ pc' = "borrow_panic"
    /\ UNCHANGED <<num_app, memory_set, args, ret, task_status, started_time,
                   current_task, borrowed, op, found, wrote, first_run,
                   has_run, scanned, sched_log, cx, waited, mem_hist>>

\* ------------------------------------------------------------- actions
\* run_first_task up to its __switch, with t the reading of get_time_us()
RunFirstTask(t) ==
    /\ pc = "boot"
    /\ cpu = NoTask
    /\ IF borrowed THEN BorrowPanic
       ELSE /\ task_status' = set_running(task_status, 0)
            /\ started_time' = [started_time EXCEPT ![0] = t]
            /\ borrowed' = drop_inner(TRUE)
            /\ pc' = "first_switch"
            /\ op' = "run_first_task"
            /\ wrote' = 0
            /\ first_run' = 0
            /\ has_run' = has_run \cup {0}
            /\ switch_from' = NoTask
            /\ switch_to' = 0
            /\ UNCHANGED <<num_app, memory_set, args, ret, current_task,
                           found, scanned, sched_log, task_cx, cpu, waited,
                           mem_hist>>

\* __switch(switch_from, switch_to): the caller's context is saved into the
\* first record, then the CPU continues with the context in the second
Switch ==
    /\ pc \in {"first_switch", "switch"}
    /\ LET saved == IF switch_from = NoTask THEN task_cx
                    ELSE [task_cx EXCEPT ![switch_from] = saved_in_switch(cpu)]
       IN  /\ task_cx' = saved
           /\ cpu' = saved[switch_to][1]
    /\ pc' = "user"
    /\ wrote' = NoTask
    /\ first_run' = NoTask
    /\ UNCHANGED <<num_app, memory_set, args, ret, task_status, started_time,
                   current_task, borrowed, op, found, has_run, scanned,
                   sched_log, switch_from, switch_to, waited, mem_hist>>

\* suspend_current_and_run_next, first half: mark_current_suspended
MarkCurrentSuspended ==
    /\ pc = "user"
    /\ IF borrowed THEN BorrowPanic
       ELSE /\ task_status' = mark_suspended(task_status, current_task)
            /\ borrowed' = scope_end(TRUE)
            /\ pc' = "marked"
            /\ op' = "suspend"
            /\ last_map' = << >>
            /\ UNCHANGED <<num_app, memory_set, args, ret, started_time,
                           current_task, found, wrote, first_run, has_run,
                           scanned, sched_log, cx, waited, ret_at, vpn_empty>>

\* exit_current_and_run_next, first half: mark_current_exited
MarkCurrentExited ==
    /\ pc = "user"
    /\ IF borrowed THEN BorrowPanic
       ELSE /\ task_status' = mark_exited(task_status, current_task)
            /\ borrowed' = scope_end(TRUE)
            /\ pc' = "marked"
            /\ op' = "exit"
            /\ sched_log' = << >>
            /\ last_map' = << >>
            /\ UNCHANGED <<num_app, memory_set, args, ret, started_time,
                           current_task, found, wrote, first_run, has_run,
                           scanned, cx, waited, ret_at, vpn_empty>>

\* run_next_task up to its __switch or its panic, with t the reading of
\* get_time_us() taken when started_time is 0
RunNextTask(t) ==
    /\ pc = "marked"
    /\ IF borrowed THEN BorrowPanic
       ELSE LET next == find_next_task(task_status, num_app, current_task)
                after_find == scope_end(TRUE)
            IN  IF after_find THEN BorrowPanic
                ELSE IF next # NoTask
                THEN /\ task_status' = set_running(task_status, next)
                     /\ started_time' =
                            IF started_unset(started_time, next)
                            THEN [started_time EXCEPT ![next] = t]
                            ELSE started_time
                     /\ wrote' = IF started_unset(started_time, next)
                                 THEN next ELSE NoTask
                     /\ first_run' = IF next \in has_run THEN NoTask ELSE next
                     /\ current_task' = new_current(current_task, next)
                     /\ switch_from' = saved_current(current_task, next)
                     /\ switch_to' = next
                     /\ waited' =
                            [i \in TaskIds |->
                                IF i = next THEN 0
                                ELSE IF /\ task_status[i] = Ready
                                        /\ i # current_task
                                        /\ waited[i] < num_app
                                THEN waited[i] + 1
                                ELSE waited[i]]
                     /\ borrowed' = drop_inner(TRUE)
                     /\ pc' = "switch"
                     /\ found' = next
                     /\ has_run' = has_run \cup {next}
                     /\ sched_log' =
                            IF \E i \in TaskIds : task_status[i] = Exited
                            THEN << >>
                            ELSE IF Len(sched_log) < num_app
                            THEN Append(sched_log, <<current_task, next>>)
                            ELSE Append(Tail(sched_log), <<current_task, next>>)
                     /\ UNCHANGED <<num_app, memory_set, args, ret, op,
                                    scanned, task_cx, cpu, mem_hist>>
                ELSE /\ pc' = "halt"
                     /\ found' = NoTask
                     /\ borrowed' = after_find
                     /\ UNCHANGED <<num_app, memory_set, args, ret,
                                    task_status, started_time, current_task,
                                    op, wrote, first_run, has_run, scanned,
                                    sched_log, cx, waited, mem_hist>>

\* the running task traps into the kernel with an mmap request
CallMmap(start, len, port) ==
    /\ pc = "user"
    /\ ceil_vpn(start + len) <= MaxVpn + 1
    /\ pc' = "mmap"
    /\ args' = <<start, len, port>>
    /\ ret_at' = "none"
    /\ vpn_empty' = FALSE
    /\ last_map' = IF /\ last_map # << >> /\ last_map[4] = 2
                      /\ start = last_map[1] /\ len = last_map[2]
                   THEN last_map ELSE << >>
    /\ UNCHANGED <<num_app, task_status, started_time, memory_set,
                   current_task, borrowed, op, ret, found, wrote, first_run,
                   has_run, scanned, sched_log, cx, waited>>

\* task_mmap / TaskManager::mmap on the arguments of the pending request
Mmap ==
    /\ pc = "mmap"
    /\ LET start == args[1]
           len == args[2]
           port == args[3]
       IN  IF mmap_args_bad(start, port)
           THEN /\ ret' = -1
                /\ ret_at' = "mmap:163"
                /\ vpn_empty' = FALSE
                /\ last_map' = << >>
                /\ op' = "mmap"
                /\ pc' = "user"
                /\ args' = << >>
                /\ UNCHANGED <<num_app, task_status, started_time, memory_set,
                               current_task, borrowed, found, wrote,
                               first_run, has_run, scanned, sched_log, cx,
                               waited>>
           ELSE IF borrowed THEN BorrowPanic
           ELSE LET permission == mmap_permission(port)
                    start_vpn == floor_vpn(start)
                    end_vpn == ceil_vpn(start + len)
                    task == cur_id(current_task)
                    ms == memory_set[task]
                IN  /\ IF range_has_valid(ms, start_vpn, end_vpn)
                       THEN /\ ret' = -1
                            /\ ret_at' = "mmap:181"
                            /\ memory_set' = memory_set
                            /\ last_map' = << >>
                       ELSE /\ ret' = 0
                            /\ ret_at' = "mmap:187"
                            /\ memory_set' =
                                   [memory_set EXCEPT ![task] =
                                       insert_framed_area(ms, start_vpn, end_vpn,
                                                          permission)]
                            /\ last_map' =
                                   IF last_map # << >>
                                   THEN <<start, len, last_map[3], 3>>
                                   ELSE <<start, len, ValidPages(ms), 1>>
                    /\ vpn_empty' = (start_vpn >= end_vpn)
                    /\ borrowed' = scope_end(TRUE)
                    /\ op' = "mmap"
                    /\ pc' = "user"
                    /\ args' = << >>
                    /\ UNCHANGED <<num_app, task_status, started_time,
                                   current_task, found, wrote, first_run,
                                   has_run, scanned, sched_log, cx, waited>>

\* the running task traps into the kernel with a munmap request
CallMunmap(start, len) ==
    /\ pc = "user"
    /\ ceil_vpn(start + len) <= MaxVpn + 1
    /\ pc' = "munmap"
    /\ args' = <<start, len>>
    /\ ret_at' = "none"
    /\ vpn_empty' = FALSE
    /\ last_map' = IF /\ last_map # << >> /\ last_map[4] = 1
                      /\ start = last_map[1] /\ len = last_map[2]
                   THEN last_map ELSE << >>
    /\ UNCHANGED <<num_app, task_status, started_time, memory_set,
                   current_task, borrowed, op, ret, found, wrote, first_run,
                   has_run, scanned, sched_log, cx, waited>>

\* task_munmap / TaskManager::munmap on the arguments of the pending
\* request; stuck are the pages memory_set.munmap leaves valid, none when
\* the address-space collaborator keeps its contract
Munmap(stuck) ==
    /\ pc = "munmap"
    /\ LET start == args[1]
           len == args[2]
       IN  IF start % PAGE_SIZE # 0
           THEN /\ ret' = -1
                /\ ret_at' = "munmap:193"
                /\ vpn_empty' = FALSE
                /\ last_map' = << >>
                /\ op' = "munmap"
                /\ pc' = "user"
                /\ args' = << >>
                /\ UNCHANGED <<num_app, task_status, started_time, memory_set,
                               current_task, borrowed, found, wrote,
                               first_run, has_run, scanned, sched_log, cx,
                               waited>>
           ELSE IF borrowed THEN BorrowPanic
           ELSE LET start_vpn == floor_vpn(start)
                    end_vpn == ceil_vpn(start + len)
                    task == cur_id(current_task)
                    ms == memory_set[task]
                    after == unmap_range(ms, start_vpn, end_vpn, stuck)
                IN  /\ IF range_has_unmapped(ms, start_vpn, end_vpn)
                       THEN /\ ret' = -1
                            /\ ret_at' = "munmap:211"
                            /\ memory_set' = memory_set
                       ELSE /\ memory_set' = [memory_set EXCEPT ![task] = after]
                            /\ IF range_has_valid(after, start_vpn, end_vpn)
                               THEN ret' = -1 /\ ret_at' = "munmap:222"
                               ELSE ret' = 0 /\ ret_at' = "munmap:224"
                    /\ last_map' = IF last_map # << >> /\ ret' = 0
                                   THEN <<last_map[1], last_map[2],
                                          last_map[3], 2>>
                                   ELSE << >>
                    /\ vpn_empty' = (start_vpn >= end_vpn)
                    /\ borrowed' = scope_end(TRUE)
                    /\ op' = "munmap"
                    /\ pc' = "user"
                    /\ args' = << >>
                    /\ UNCHANGED <<num_app, task_status, started_time,
                                   current_task, found, wrote, first_run,
                                   has_run, scanned, sched_log, cx, waited>>

Next ==
    \/ \E t \in TimeReadings : RunFirstTask(t)
    \/ Switch
    \/ MarkCurrentSuspended
    \/ MarkCurrentExited
    \/ \E t \in TimeReadings : RunNextTask(t)

Spec == Init /\ [][Next]_vars

\* ------------------------------------------- find_next_task on its own
\* any registry: every task count, every status assignment, every current_task
InitFind ==
    /\ num_app \in 1 .. MaxApp
    /\ task_status \in [TaskIds -> TaskStatus]
    /\ started_time = [i \in TaskIds |-> 0]
    /\ memory_set = [i \in TaskIds |-> from_image]
    /\ args = << >>
    /\ ret = 0
    /\ current_task \in TaskIds
    /\ borrowed = FALSE
    /\ pc = "find"
    /\ cpu = NoTask
    /\ op = "none"
    /\ found = NoTask
    /\ wrote = NoTask
    /\ first_run = NoTask
    /\ has_run = {}
    /\ scanned = << >>
    /\ task_cx = [i \in TaskIds |-> goto_trap_return(i)]
    /\ switch_from = NoTask
    /\ switch_to = NoTask
    /\ waited = [i \in TaskIds |-> 0]
    /\ ret_at = "none"
    /\ vpn_empty = FALSE
    /\ last_map = << >>
    /\ sched_log = << >>

\* one call of find_next_task
FindNextTask ==
    /\ pc = "find"
    /\ cpu = NoTask
    /\ IF borrowed THEN BorrowPanic
       ELSE /\ found' = find_next_task(task_status, num_app, current_task)
            /\ scanned' = scan_order(task_status, num_app, current_task)
            /\ borrowed' = scope_end(TRUE)
            /\ pc' = "found"
            /\ op' = "find_next_task"
            /\ UNCHANGED <<num_app, memory_set, args, ret, task_status,
                           started_time, current_task, wrote, first_run,
                           has_run, sched_log, cx, waited, mem_hist>>

NextFind == FindNextTask

SpecFind == InitFind /\ [][NextFind]_vars

\* ------------------------------------- the running task's address space
\* timer reading taken for every stamp in the runs of SpecMem
MemTime == 1

\* the registry when task c runs after c suspend_current_and_run_next calls
\* from boot
InitMem ==
    /\ num_app = MaxMemApp
    /\ current_task \in TaskIds
    /\ task_status = [i \in TaskIds |-> IF i = current_task THEN Running ELSE Ready]
    /\ started_time = [i \in TaskIds |-> IF i <= current_task THEN MemTime ELSE 0]
    /\ memory_set = [i \in TaskIds |-> from_image]
    /\ borrowed = FALSE
    /\ pc = "user"
    /\ op = IF current_task = 0 THEN "run_first_task" ELSE "suspend"
    /\ args = << >>
    /\ ret = 0
    /\ found = IF current_task = 0 THEN NoTask ELSE current_task
    /\ wrote = NoTask
    /\ first_run = NoTask
    /\ has_run = 0 .. current_task
    /\ scanned = << >>
    /\ task_cx = [i \in TaskIds |-> IF i < current_task
                                     THEN saved_in_switch(i)
                                     ELSE goto_trap_return(i)]
    /\ switch_from = IF current_task = 0 THEN NoTask ELSE current_task - 1
    /\ switch_to = current_task
    /\ cpu = current_task
    /\ waited = [i \in TaskIds |-> IF i > current_task THEN current_task
                                    ELSE IF i < current_task
                                    THEN current_task - 1 - i
                                    ELSE 0]
    /\ ret_at = "none"
    /\ vpn_empty = FALSE
    /\ last_map = << >>
    /\ sched_log = [k \in 1 .. current_task |-> <<k - 1, k>>]

NextMem ==
    \/ \E start \in Starts, len \in Lens, port \in Ports :
          CallMmap(start, len, port)
    \/ Mmap

SpecMem == InitMem /\ [][NextMem]_vars

\* ----------------------------------------------------- mmap with munmap
\* ports of the mmap requests in the runs with munmap: none, Read,
\* Read + Write
UnmapPorts == {0, 1, 3}

\* the address-space collaborator keeps its contract
NextUnmap ==
    \/ \E start \in Starts, len \in Lens, port \in UnmapPorts :
          CallMmap(start, len, port)
    \/ Mmap
    \/ \E start \in Starts, len \in Lens : CallMunmap(start, len)
    \/ Munmap({})

SpecUnmap == InitMem /\ [][NextUnmap]_vars

\* memory_set.munmap may leave any page of the range valid
NextUnmapFaulty ==
    \/ \E start \in Starts, len \in Lens, port \in UnmapPorts :
          CallMmap(start, len, port)
    \/ Mmap
    \/ \E start \in Starts, len \in Lens : CallMunmap(start, len)
    \/ \E stuck \in SUBSET Vpns : Munmap(stuck)

SpecUnmapFaulty == InitMem /\ [][NextUnmapFaulty]_vars

\* ------------------------------------ scheduling with address-space calls
\* arguments of the mmap and munmap requests in the runs of SpecShare: the
\* range of page 1 or of pages 1 and 2, for Read or for Read + Write
ShareStarts == {PAGE_SIZE}
ShareLens == {PAGE_SIZE, 2 * PAGE_SIZE}
SharePorts == {1, 3}

\* the kernel as TASK_MANAGER leaves it, with MaxMemApp programs
InitShare == Init /\ num_app = MaxMemApp

\* current_user_token, current_trap_cx, current_task_syscall_times and
\* current_task_time: the guard is taken, a field of tasks[current_task] is
\* read, the guard is released
CurrentAccess ==
    /\ pc = "user"
    /\ IF borrowed THEN BorrowPanic
       ELSE /\ borrowed' = scope_end(TRUE)
            /\ op' = "access"
            /\ last_map' = << >>
            /\ UNCHANGED <<num_app, task_status, started_time, memory_set,
                           current_task, pc, args, ret, found, wrote,
                           first_run, has_run, scanned, sched_log, cx, waited,
                           ret_at, vpn_empty>>

NextShare ==
    \/ RunFirstTask(MemTime)
    \/ Switch
    \/ MarkCurrentSuspended
    \/ MarkCurrentExited
    \/ RunNextTask(MemTime)
    \/ \E start \in ShareStarts, len \in ShareLens, port \in SharePorts :
          CallMmap(start, len, port)
    \/ Mmap
    \/ \E start \in ShareStarts, len \in ShareLens : CallMunmap(start, len)
    \/ Munmap({})
    \/ CurrentAccess

SpecShare == InitShare /\ [][NextShare]_vars

\* ------------------------------------------ the scheduler with progress
\* most programs in the runs of SpecLive
MaxLiveApp == 4

\* the kernel as TASK_MANAGER leaves it, with at most MaxLiveApp programs
InitLive == Init /\ num_app <= MaxLiveApp

NextLive ==
    \/ RunFirstTask(MemTime)
    \/ Switch
    \/ MarkCurrentSuspended
    \/ MarkCurrentExited
    \/ RunNextTask(MemTime)

\* the kernel finishes the call it is in, and the task that runs sooner or
\* later calls suspend_current_and_run_next or exit_current_and_run_next
SpecLive == InitLive /\ [][NextLive]_vars /\ WF_vars(NextLive)

\* =============================================================== claims
RunningTasks == {i \in TaskIds : task_status[i] = Running}
ReadyTasks == {i \in TaskIds : task_status[i] = Ready}
ExitedTasks == {i \in TaskIds : task_status[i] = Exited}

\* C1: after the first run_first_task call, in every state reached through
\* suspend_current_and_run_next and exit_current_and_run_next (the states
\* between their two halves included), at most one task is Running.
C1_AtMostOneRunning ==
    pc # "boot" => Cardinality(RunningTasks) <= 1

\* a task other than task 0 runs after a suspend while task 0 waits Ready
C1_Witness ==
    /\ pc = "user" /\ op = "suspend" /\ current_task # 0
    /\ RunningTasks = {current_task} /\ 0 \in ReadyTasks

\* C2 as stated: once run_first_task has run, exactly one task is Running in
\* every later state, between mark_current_* and run_next_task and in the
\* halt state too.
C2_ExactlyOneRunningAlways ==
    pc # "boot" => Cardinality(RunningTasks) = 1

\* C2 amended: exactly one task, tasks[current_task], is Running from the
\* moment run_first_task or run_next_task has selected it until the next
\* mark_current_suspended or mark_current_exited; no task is Running before
\* startup, between mark_current_* and the selection made by run_next_task,
\* and in the halt state.
C2_ExactlyOneRunningWhileSelected ==
    /\ pc \in {"first_switch", "switch", "user"} => RunningTasks = {current_task}
    /\ pc \in {"boot", "marked", "halt"} => RunningTasks = {}

\* between mark_current_suspended and run_next_task no task is Running
C2_Witness ==
    /\ pc = "marked" /\ op = "suspend" /\ RunningTasks = {}
    /\ ReadyTasks # {}

\* the first Ready id in the ring order current+1, ..., current+n (mod n)
RingOffsets(st, n, cur) == {k \in 1 .. n : st[(cur + k) % n] = Ready}
FirstReadyInRing(st, n, cur) ==
    LET offs == RingOffsets(st, n, cur)
    IN  IF offs = {} THEN NoTask
        ELSE (cur + (CHOOSE k \in offs : \A j \in offs : k <= j)) % n

\* C3: for every registry, find_next_task returns the first Ready id in the
\* ring order current+1, ..., current+N (mod N), none exactly when no task is
\* Ready; it examines each id at most once and changes neither a status nor
\* current_task.
C3_FindNextTaskRing ==
    [][(pc = "find" /\ pc' = "found") =>
        /\ found' = FirstReadyInRing(task_status, num_app, current_task)
        /\ (found' = NoTask) <=> (ReadyTasks = {})
        /\ Len(scanned') <= num_app
        /\ \A a, b \in 1 .. Len(scanned') : a # b => scanned'[a] # scanned'[b]
        /\ task_status' = task_status
        /\ current_task' = current_task]_vars

\* N = 4, current = 1, READY = {0, 3}: the scan returns 3, not 0
C3_Witness ==
    /\ pc = "found" /\ num_app = 4 /\ current_task = 1
    /\ ReadyTasks = {0, 3} /\ found = 3

\* C4: a status changes only Ready->Running (the task find_next_task
\* selected, or task 0 at startup), Running->Ready or Running->Exited; an
\* Exited task never changes again and is never selected.
C4_StatusTransitions ==
    [][/\ \A i \in TaskIds :
            task_status'[i] # task_status[i] =>
                \/ /\ task_status[i] = Ready /\ task_status'[i] = Running
                   /\ i = current_task'
                   /\ pc' \in {"first_switch", "switch"}
                \/ /\ task_status[i] = Running /\ task_status'[i] = Ready
                   /\ op' = "suspend"
                \/ /\ task_status[i] = Running /\ task_status'[i] = Exited
                   /\ op' = "exit"
       /\ (pc' = "switch" /\ pc = "marked") => task_status[found'] = Ready]_vars

\* a task runs again after a suspend while another task has already exited
C4_Witness ==
    /\ pc = "switch" /\ op = "suspend" /\ ExitedTasks # {}
    /\ first_run = NoTask /\ RunningTasks = {current_task}

\* C5 as stated: whatever the timer returns, started_time is assigned in
\* exactly the steps that make a task Running for the first time.
C5_StartedTimeWrittenOnce ==
    wrote = first_run

\* C6: while no task has exited, every run_next_task selects the id after
\* the current one (mod N), so N consecutive suspend_current_and_run_next
\* calls select each of the N tasks exactly once, in increasing id order.
C6_RoundRobin ==
    /\ \A k \in 1 .. Len(sched_log) :
            sched_log[k][2] = (sched_log[k][1] + 1) % num_app
    /\ Len(sched_log) = num_app =>
            {sched_log[k][2] : k \in 1 .. num_app} = TaskIds

\* a full window of N >= 3 selections has been made
C6_Witness ==
    /\ num_app >= 3 /\ Len(sched_log) = num_app /\ pc = "user"
    /\ ExitedTasks = {}

\* C7: run_next_task halts exactly when no task is Ready at its scan, which
\* is exactly when exit_current_and_run_next was called with every task now
\* Exited, never after a suspend; halting changes no status and not
\* current_task.
C7_HaltIffNoReady ==
    [][(pc = "marked" /\ pc' # "marked") =>
        /\ (pc' = "halt") <=> (ReadyTasks = {})
        /\ (pc' = "halt") <=> (op = "exit" /\ ExitedTasks = TaskIds)
        /\ pc' = "halt" => (task_status' = task_status /\ current_task' = current_task)
        /\ pc' \in {"halt", "switch"}]_vars

\* the last of several tasks has exited and the kernel has halted
C7_Witness ==
    /\ pc = "halt" /\ num_app >= 2 /\ ExitedTasks = TaskIds /\ op = "exit"

\* C8: the exclusive-access guard is not held when __switch is invoked, nor
\* when the task switched to makes its first Task Manager call.
C8_GuardReleasedBeforeSwitch ==
    pc \in {"first_switch", "switch", "user"} => ~borrowed

\* run_next_task has selected another task and stands before __switch
C8_Witness ==
    /\ pc = "switch" /\ ~borrowed /\ found = current_task /\ found # 0

\* bit b (of weight w = 2^b) of a page-table entry
HasFlag(pte, w) == (pte \div w) % 2 = 1

\* the pages that [start, start+len) touches
PagesOf(start, len) ==
    {v \in Vpns : v * PAGE_SIZE < start + len /\ (v + 1) * PAGE_SIZE > start}

\* C9: for a page-aligned start, len > 0 and port in 1..7, when every page
\* the range touches is unmapped for the current task, mmap returns 0 and
\* makes exactly those pages valid with Read iff bit0, Write iff bit1,
\* Execute iff bit2, plus User; every other page keeps its entry.
C9_MmapSuccess ==
    [][( /\ pc = "mmap" /\ pc' = "user"
         /\ args[1] % PAGE_SIZE = 0 /\ args[2] > 0 /\ args[3] \in 1 .. 7
         /\ \A v \in PagesOf(args[1], args[2]) :
                ~HasFlag(memory_set[current_task][v], PTE_V) )
        => /\ ret' = 0
           /\ \A v \in PagesOf(args[1], args[2]) :
                 LET pte == memory_set'[current_task][v]
                 IN  /\ HasFlag(pte, PTE_V)
                     /\ HasFlag(pte, PTE_U)
                     /\ HasFlag(pte, PTE_R) <=> (args[3] % 2 = 1)
                     /\ HasFlag(pte, PTE_W) <=> ((args[3] \div 2) % 2 = 1)
                     /\ HasFlag(pte, PTE_X) <=> ((args[3] \div 4) % 2 = 1)
                     /\ pte < 2 * PTE_U
           /\ \A v \in Vpns \ PagesOf(args[1], args[2]) :
                 memory_set'[current_task][v] = memory_set[current_task][v]]_vars

\* mmap(0x1000, 0x2000, 0b011) has made pages 1 and 2 of a task other than
\* task 0 valid with Read + Write + User, Execute absent
C9_Witness ==
    /\ op = "mmap" /\ ret = 0 /\ current_task # 0
    /\ memory_set[current_task][1] = PTE_V + PTE_R + PTE_W + PTE_U
    /\ memory_set[current_task][2] = PTE_V + PTE_R + PTE_W + PTE_U
    /\ memory_set[current_task][0] = PTE_V + PTE_R + PTE_X + PTE_U

C11_MmapOverlapFails ==
    [][( /\ pc = "mmap" /\ pc' = "user"
         /\ \E v \in PagesOf(args[1], args[2]) :
                HasFlag(memory_set[current_task][v], PTE_V) )
        => /\ ret' = -1
           /\ memory_set' = memory_set]_vars

\* an mmap has failed at the overlap check in a task other than task 0: page 1
\* keeps the Read + User entry of the first mmap and page 2 is unmapped
C11_Witness ==
    /\ ret_at = "mmap:181" /\ ret = -1 /\ current_task # 0
    /\ memory_set[current_task][1] = PTE_V + PTE_R + PTE_U
    /\ memory_set[current_task][2] = 0

\* C12: when start is not page-aligned, or a page of the rounded range
\* [start, start+len) is not valid for the current task, munmap returns -1
\* and unmaps nothing: every page keeps its entry.
C12_MunmapFails ==
    [][( /\ pc = "munmap" /\ pc' = "user"
         /\ \/ args[1] % PAGE_SIZE # 0
            \/ \E v \in PagesOf(args[1], args[2]) :
                   ~HasFlag(memory_set[current_task][v], PTE_V) )
        => /\ ret' = -1
           /\ memory_set' = memory_set]_vars

\* a munmap has failed at the all-mapped check in a task other than task 0
\* that holds page 1 but not page 2: page 1 is still mapped
C12_Witness ==
    /\ ret_at = "munmap:211" /\ ret = -1 /\ current_task # 0
    /\ HasFlag(memory_set[current_task][1], PTE_V)
    /\ ~HasFlag(memory_set[current_task][2], PTE_V)

\* C13: after a successful mmap(start, len, port), a munmap(start, len)
\* made at once by the same task returns 0, leaves every page of the rounded
\* range invalid and the set of valid pages as it was before the mmap; an
\* mmap of the same range made next, with a valid port, succeeds again.
C13_MmapMunmapRoundTrip ==
    [][/\ (pc = "munmap" /\ pc' = "user" /\ last_map # << >>)
            => /\ ret' = 0
               /\ \A v \in PagesOf(args[1], args[2]) :
                      ~HasFlag(memory_set'[current_task][v], PTE_V)
               /\ ValidPages(memory_set'[current_task]) = last_map[3]
               /\ \A i \in TaskIds \ {current_task} :
                      memory_set'[i] = memory_set[i]
       /\ (pc = "mmap" /\ pc' = "user" /\ last_map # << >>
           /\ args[3] \in 1 .. 7)
            => /\ ret' = 0
               /\ \A v \in PagesOf(args[1], args[2]) :
                      HasFlag(memory_set'[current_task][v], PTE_V)]_vars

\* mmap, munmap and mmap again of the pages 1 and 2 have all returned 0 in a
\* task other than task 0
C13_Witness ==
    /\ last_map # << >> /\ last_map[4] = 3 /\ ret = 0 /\ op = "mmap"
    /\ last_map[1] = PAGE_SIZE /\ last_map[2] = 2 * PAGE_SIZE
    /\ current_task # 0
    /\ ValidPages(memory_set[current_task]) = {0, 1, 2}

\* C14 as stated: when memory_set.munmap leaves a page of the range valid
\* and the recheck of munmap therefore returns -1, the current task has the
\* same set of valid pages after the failed call as before it.
C14_FailedMunmapUndone ==
    [][(pc = "munmap" /\ pc' = "user" /\ ret_at' = "munmap:222")
        => ValidPages(memory_set'[current_task])
               = ValidPages(memory_set[current_task])]_vars

\* C20: for a page-aligned start and len = 0 the rounded range is empty:
\* mmap with a port in 1..7 returns 0 and munmap returns 0, whether the page
\* at start is mapped or not, and no entry of any address space changes.
C20_EmptyRange ==
    [][/\ (pc = "mmap" /\ pc' = "user" /\ args[1] % PAGE_SIZE = 0
           /\ args[2] = 0 /\ args[3] \in 1 .. 7)
            => ret' = 0 /\ memory_set' = memory_set /\ vpn_empty'
       /\ (pc = "munmap" /\ pc' = "user" /\ args[1] % PAGE_SIZE = 0
           /\ args[2] = 0)
            => ret' = 0 /\ memory_set' = memory_set /\ vpn_empty']_vars

\* a munmap of an empty range has returned 0 in a task other than task 0
\* that holds page 1 but not page 2
C20_Witness ==
    /\ vpn_empty /\ ret = 0 /\ op = "munmap" /\ current_task # 0
    /\ HasFlag(memory_set[current_task][1], PTE_V)
    /\ ~HasFlag(memory_set[current_task][2], PTE_V)

\* C15: mmap and munmap act on the address space of tasks[current_task]
\* only: whether the call succeeds or fails, the address space of every
\* other task, every status and current_task are as before; an address
\* space changes in no other step, and whether an mmap with valid arguments
\* succeeds depends on the pages of the current task alone, so the mapping
\* another task holds on the same range does not block it.
C15_OnlyCurrentAddressSpace ==
    [][/\ (pc \in {"mmap", "munmap"} /\ pc' = "user")
            => /\ \A i \in TaskIds \ {current_task} :
                      memory_set'[i] = memory_set[i]
               /\ task_status' = task_status
               /\ current_task' = current_task
       /\ \A i \in TaskIds :
              memory_set'[i] # memory_set[i]
                  => i = current_task /\ pc \in {"mmap", "munmap"}
       /\ (pc = "mmap" /\ pc' = "user" /\ ~mmap_args_bad(args[1], args[3]))
            => (ret' = 0 <=>
                    \A v \in PagesOf(args[1], args[2]) :
                        ~HasFlag(memory_set[current_task][v], PTE_V))]_vars

\* after a switch task 1 has mapped page 1 for Read + Write while task 0
\* holds its own mapping of page 1 for Read
C15_Witness ==
    /\ pc = "user" /\ op = "mmap" /\ ret = 0 /\ current_task = 1
    /\ memory_set[0][1] = PTE_V + PTE_R + PTE_U
    /\ memory_set[1][1] = PTE_V + PTE_R + PTE_W + PTE_U

\* C16: run_next_task hands __switch the record of the task that was current
\* before the call to save into and the record of the task find_next_task
\* returned to load, after it has made that task Running and current_task.
\* The switch saves the running task's context into its own record and
\* changes no other record; the context it loads belongs to the selected
\* task and is the one saved at that task's last switch-out, or its creation
\* context on its first run; the CPU passes to another task in a switch
\* only, to the task whose record is loaded; an Exited task's record is not
\* loaded.
C16_SwitchRecords ==
    [][/\ (pc = "marked" /\ pc' = "switch")
            => /\ switch_from' = current_task
               /\ switch_to' = find_next_task(task_status, num_app, current_task)
               /\ task_status'[switch_to'] = Running
               /\ current_task' = switch_to'
               /\ task_cx' = task_cx /\ cpu' = cpu
       /\ (pc = "switch" /\ pc' = "user")
            => /\ cpu = switch_from
               /\ task_status[switch_to] = Running
               /\ current_task = switch_to
               /\ task_cx'[switch_from] = saved_in_switch(switch_from)
               /\ \A i \in TaskIds \ {switch_from} : task_cx'[i] = task_cx[i]
               /\ cpu' = switch_to
               /\ task_cx'[switch_to][1] = switch_to
               /\ (first_run = switch_to)
                      <=> (task_cx'[switch_to] = goto_trap_return(switch_to))
               /\ (first_run # switch_to)
                      <=> (task_cx'[switch_to] = saved_in_switch(switch_to))
       /\ cpu' # cpu
            => /\ pc \in {"first_switch", "switch"}
               /\ cpu' = switch_to
               /\ task_status[switch_to] # Exited
       /\ task_cx' # task_cx => pc = "switch"]_vars

\* a switch away from a task that has exited has resumed a task that was
\* switched out before, from the context saved then
C16_Witness ==
    /\ pc = "user" /\ switch_from # NoTask /\ switch_from # switch_to
    /\ task_status[switch_from] = Exited
    /\ cpu = switch_to /\ task_cx[cpu] = saved_in_switch(cpu)

\* C17: whenever a task executes, that is from the first switch on, before
\* and after every facade call and while an mmap or munmap request is
\* served, current_task is a task id below num_app, tasks[current_task] is
\* the one Running task and it is the task on the CPU; so mark_current_*
\* and the accessor, mmap and munmap calls act on the Running task.
C17_CurrentIsRunning ==
    pc \in {"user", "mmap", "munmap"}
        => /\ current_task \in 0 .. (num_app - 1)
           /\ task_status[current_task] = Running
           /\ RunningTasks = {current_task}
           /\ cpu = current_task
           /\ task_status[cur_id(current_task)] = Running

\* a task other than task 0 is served a munmap request after another task
\* has exited
C17_Witness ==
    /\ pc = "munmap" /\ current_task # 0 /\ ExitedTasks # {}
    /\ task_status[current_task] = Running /\ cpu = current_task

\* C19: no sequence of facade calls of the running tasks takes the guard
\* while it is held: the BorrowMutError panic is never reached, and the
\* guard is free whenever a method has returned, when run_next_task goes on
\* after find_next_task, and at a switch, so also when a task runs for the
\* first time or resumes.
C19_NoReentrantBorrow ==
    /\ pc # "borrow_panic"
    /\ ~borrowed

\* task 1 has been served an mmap after it was started by a switch, then
\* suspended and resumed, with the guard free
C19_Witness ==
    /\ pc = "user" /\ op = "mmap" /\ ~borrowed /\ num_app >= 2
    /\ current_task = 1 /\ task_cx[1] = saved_in_switch(1)
    /\ task_cx[0] = saved_in_switch(0)

\* C18: when the running task always calls suspend_current_and_run_next or
\* exit_current_and_run_next again, every Ready task becomes Running, after
\* run_next_task calls of other tasks have passed it over at most N-2 times
\* (it is selected by the N-1st at the latest); and when, moreover, no task
\* is run again and again without exiting, the kernel reaches the halt
\* state with every task Exited.
C18_NoStarvation ==
    /\ [](\A i \in TaskIds : waited[i] = 0 \/ waited[i] <= num_app - 2)
    /\ \A i \in 0 .. (MaxLiveApp - 1) :
           (i < num_app /\ task_status[i] = Ready)
               ~> (i < num_app /\ task_status[i] = Running)
    /\ (\A i \in 0 .. (MaxLiveApp - 1) :
            []<>(i < num_app /\ pc = "user" /\ current_task = i)
                => <>(i < num_app /\ task_status[i] = Exited))
         => <>(pc = "halt" /\ ExitedTasks = TaskIds)

\* the last of MaxLiveApp tasks was passed over by the calls of all the
\* others before its first run, and every task has run and exited
C18_Witness ==
    /\ pc = "halt" /\ num_app = MaxLiveApp /\ ExitedTasks = TaskIds
    /\ has_run = TaskIds
    /\ \A i \in TaskIds : task_cx[i] = saved_in_switch(i)

====
